---- MODULE Spec2Model ----
(***************************************************************************)
(* Model of src/src/laserscan_interpreter.cpp: the confidence scorer       *)
(* Bank::calculateConfidence and the ingress state machine of the          *)
(* LaserScan(Array)Interpreter node/nodelet (onInit, the warm-up and hz     *)
(* calculation callbacks, the first-scan callback and the steady-state      *)
(* callback), for several interpreter instances hosted in one process.      *)
(*                                                                         *)
(* Numbers are exact rationals held as scaled integers:                     *)
(*   time (now, start_time, max_time), optimize_nr_scans_in_bank: 1/10 s    *)
(*   dt, root_1, root_2:                                        1/100 s     *)
(*   ema_alpha:                                                 1/10        *)
(*   base_confidence, widths, the bracketed sum of the scorer:  1/10000     *)
(*   the confidence returned:                                   1/100000    *)
(* so that root = 0.6 * optimize is 6 * optimize in these units, and        *)
(* optimize * hz = optimize * received_messages / elapsed_time is the       *)
(* rational (optimize * received_messages) / elapsed_time. The arithmetic   *)
(* is exact: the rounding of the doubles of the code is not modelled.       *)
(*                                                                         *)
(* Bank (bank.h) is not part of this file: what init and addMessage return  *)
(* is an input of the callbacks, and max_messages and max_time, declared in *)
(* LaserScanInterpreter.h, are chosen at start.                             *)
(*                                                                         *)
(* A message is delivered to the callback its subscription is bound to, one *)
(* callback at a time. A call through banks[i] beyond banks.size() either   *)
(* returns some value or ends the process (crashed); nothing runs after.    *)
(***************************************************************************)
EXTENDS Integers, Sequences, FiniteSets, TLC

\* ------------------------------------------------------------------ bounds
\* the clock stops at MaxNow (1/10 s)
MaxNow == 2
\* an incoming LaserScanArray holds 0..MaxArrayLen scans
MaxArrayLen == 2

\* interpreter instances: the NODE build creates one in main; a nodelet manager
\* may load several nodelets of the NODELET build into one process
Inst == {1, 2}

\* values of the private parameters read by onInit (none is validated there)
OptimizeSet == {-1, 0, 1}
NrScansParamSet == {1, 3}
EmaAlphaParamSet == {10}
BaseConfidenceParamSet == {4000}
\* values of max_messages and max_time (declared in LaserScanInterpreter.h)
MaxMessagesSet == {0, 3}
MaxTimeSet == {2, 9}

\* return codes of Bank::init and Bank::addMessage: 0 is success
RetCodes == {0, -1}

\* what a double -> long / double -> int conversion of an infinite value may
\* leave in an int (undefined behaviour): any int
UBInts == {-2 * (2^30 - 1) - 2, 0, 1, 2 * (2^30 - 1) + 1}

VARIABLES
  param,                     \* per instance: its private parameters on the parameter server
  NODELET,                   \* compile-time variant: nodelet (TRUE) or node
  LSARRAY,                   \* compile-time variant: scan-array (TRUE) or single scan
  max_messages, max_time,    \* warm-up ceilings
  root_1, root_2,            \* file-scope globals, shared by all instances
  now,                       \* ros::Time::now()
  sub,                       \* per instance: the callback the subscription is bound to
  optimize_nr_scans_in_bank, \* per instance
  received_messages,         \* per instance
  start_time,                \* per instance
  bank_arguments,            \* per instance: sequence of BankArgument
  banks,                     \* per instance: sequence of Bank
  calls,                     \* the Bank calls made by the most recent callback
  computed,                  \* per instance: number of compute steps executed
  last_conf,                 \* the most recent calculateConfidence call
  crashed,                   \* the process was ended by a segmentation fault
  arrived                    \* per instance: messages delivered to its warm-up callbacks

vars == <<param, NODELET, LSARRAY, max_messages, max_time, root_1, root_2, now, sub,
          optimize_nr_scans_in_bank, received_messages, start_time,
          bank_arguments, banks, calls, computed, last_conf, crashed, arrived>>

None == [none |-> TRUE]

\* --------------------------------------------------------------- arithmetic
\* C++ integer division truncates toward zero
CDiv(x, y) ==
  IF (x >= 0) = (y > 0) THEN (IF x >= 0 THEN x ELSE -x) \div (IF y > 0 THEN y ELSE -y)
  ELSE -((IF x >= 0 THEN x ELSE -x) \div (IF y > 0 THEN y ELSE -y))

\* (long) of the rational n/d, d > 0: truncation toward zero
LongCast(n, d) == CDiv(n, d)

\* ceil of the rational n/d, d > 0
Ceil(n, d) == -((-n) \div d)

\* fabsf on the widths of the model, all exactly representable as float
Fabsf(x) == IF x < 0 THEN -x ELSE x

\* ------------------------------------------------------------------- scorer
\* a with the sign lost
a_positive == CDiv(10, 3)

\* const double a = -10 / 3;  both operands are ints: integer division
a == CDiv(-10, 3)

\* the roots as initialised at file scope: 0.35 and 0.65
DefaultRoot1 == 35
DefaultRoot2 == 65

\* the bonus with the last flag left out of the conjunction
TransformBonus_five(transform_old_time_map_frame_success, transform_new_time_map_frame_success, transform_old_time_fixed_frame_success, transform_new_time_fixed_frame_success, transform_old_time_base_frame_success, transform_new_time_base_frame_success) ==
  IF transform_old_time_map_frame_success /\
     transform_new_time_map_frame_success /\
     transform_old_time_fixed_frame_success /\
     transform_new_time_fixed_frame_success /\
     transform_old_time_base_frame_success
  THEN 5000 ELSE 0

\* (all six transform lookups succeeded ? 0.5 : 0.0)
TransformBonus(transform_old_time_map_frame_success, transform_new_time_map_frame_success, transform_old_time_fixed_frame_success, transform_new_time_fixed_frame_success, transform_old_time_base_frame_success, transform_new_time_base_frame_success) ==
  IF transform_old_time_map_frame_success /\
     transform_new_time_map_frame_success /\
     transform_old_time_fixed_frame_success /\
     transform_new_time_fixed_frame_success /\
     transform_old_time_base_frame_success /\
     transform_new_time_base_frame_success
  THEN 5000 ELSE 0

\* Bank::calculateConfidence; reads the globals root_1 and root_2
calculateConfidence(mo, ba, dt, mo_old_width, f1, f2, f3, f4, f5, f6) ==
  ba.ema_alpha *
    (ba.base_confidence +
     TransformBonus(f1, f2, f3, f4, f5, f6) +
     a * (dt - root_1) * (dt - root_2) +
     (-5 * Fabsf(mo.seen_width - mo_old_width)))

\* one call of calculateConfidence: its arguments and what it returned
ConfCall(mo, ba, dt, mo_old_width, f) ==
  [mo |-> mo, ba |-> ba, dt |-> dt, mo_old_width |-> mo_old_width, f |-> f,
   result |-> calculateConfidence(mo, ba, dt, mo_old_width,
                                  f[1], f[2], f[3], f[4], f[5], f[6])]

\* ---------------------------------------------------------------- calibrator
\* the window size without the branch for an integral nr_scans
NrScans_ceil(n, d) == Ceil(n, d)

\* nr_scans - ((long) nr_scans) == 0.0 ? nr_scans + 1 : ceil(nr_scans)
\* for nr_scans = n/d, d > 0
NrScans(n, d) ==
  IF n - LongCast(n, d) * d = 0 THEN LongCast(n, d) + 1 ELSE Ceil(n, d)

\* if (nr_scans_in_bank < 2) nr_scans_in_bank = 2;
SanityCheck(x) == IF x < 2 THEN 2 ELSE x

\* root_1 = optimize_nr_scans_in_bank * 0.6; root_2 = optimize_nr_scans_in_bank * 1.4;
CalibratedRoot1(optimize) == 6 * optimize
CalibratedRoot2(optimize) == 14 * optimize

\* ------------------------------------------------------------------ ingress
WaitCb == "waitForFirstMessageCallback"
HzCb == "hzCalculationCallback"
FirstCb == IF LSARRAY THEN "laserScanArrayCallbackFirst" ELSE "laserScanCallbackFirst"
SteadyCb == IF LSARRAY THEN "laserScanArrayCallback" ELSE "laserScanCallback"
Unsubscribed == "unsubscribed"

\* (records list their fields in the order TLC keeps them)
\* one Bank call made by a callback
Call(op, bank, nr, ret) == [op |-> op, bank |-> bank, nr |-> nr, ret |-> ret]
\* the callback that handled the most recent message and the Bank calls it made
Handled(inst, cb, events) == [inst |-> inst, cb |-> cb, events |-> events]
\* the same for a callback of the scan-array variant; nr_msgs = msg->msgs.size()
HandledArray(inst, cb, events, nr_msgs) ==
  [inst |-> inst, cb |-> cb, events |-> events, nr_msgs |-> nr_msgs]

BankArgument(nr, alpha, base) ==
  [ema_alpha |-> alpha, base_confidence |-> base, nr_scans_in_bank |-> nr,
   suffix |-> <<>>]

\* the private parameters of one instance
Params ==
  [optimize_nr_scans_in_bank : OptimizeSet, ema_alpha : EmaAlphaParamSet,
   base_confidence : BaseConfidenceParamSet, nr_scans_in_bank : NrScansParamSet]

\* the state after construction: received_messages(0), optimize_nr_scans_in_bank(0.0),
\* and, in the single-scan variant, bank = new Bank
Constructed ==
  /\ param \in [Inst -> Params]
  /\ NODELET \in BOOLEAN
  /\ LSARRAY \in BOOLEAN
  /\ max_messages \in MaxMessagesSet
  /\ max_time \in MaxTimeSet
  /\ now = 0
  /\ sub = [i \in Inst |-> Unsubscribed]
  /\ optimize_nr_scans_in_bank = [i \in Inst |-> 0]
  /\ received_messages = [i \in Inst |-> 0]
  /\ start_time = [i \in Inst |-> 0]
  /\ bank_arguments = [i \in Inst |-> <<>>]
  /\ banks = [i \in Inst |-> IF LSARRAY THEN <<>> ELSE <<[initialized |-> FALSE]>>]
  /\ calls = None
  /\ computed = [i \in Inst |-> 0]
  /\ last_conf = None
  /\ crashed = FALSE
  /\ arrived = [i \in Inst |-> 0]

\* at process start the roots hold their file-scope initialisers
Init ==
  /\ Constructed
  /\ root_1 = DefaultRoot1
  /\ root_2 = DefaultRoot2

\* the clock advances between callbacks
Tick ==
  /\ now < MaxNow
  /\ now' = now + 1
  /\ UNCHANGED <<param, NODELET, LSARRAY, max_messages, max_time, root_1, root_2, sub,
                 optimize_nr_scans_in_bank, received_messages, start_time,
                 bank_arguments, banks, calls, computed, last_conf, crashed, arrived>>

\* the instances hosted in the process
Hosted == IF NODELET THEN Inst ELSE {1}

\* onInit subscribing the warm-up callback whatever optimize_nr_scans_in_bank is
onInit_always_optimizes(i) ==
  /\ ~crashed
  /\ i \in Hosted
  /\ sub[i] = Unsubscribed
  /\ bank_arguments' =
       [bank_arguments EXCEPT ![i] =
          <<BankArgument(param[i].nr_scans_in_bank, param[i].ema_alpha,
                         param[i].base_confidence)>>]
  /\ optimize_nr_scans_in_bank' =
       [optimize_nr_scans_in_bank EXCEPT ![i] = param[i].optimize_nr_scans_in_bank]
  /\ sub' = [sub EXCEPT ![i] = WaitCb]
  /\ UNCHANGED <<param, NODELET, LSARRAY, max_messages, max_time, root_1, root_2, now,
                 received_messages, start_time, banks, calls, computed,
                 last_conf, crashed, arrived>>

\* onInit subscribing the first-scan callback whatever optimize_nr_scans_in_bank is
onInit_never_optimizes(i) ==
  /\ ~crashed
  /\ i \in Hosted
  /\ sub[i] = Unsubscribed
  /\ bank_arguments' =
       [bank_arguments EXCEPT ![i] =
          <<BankArgument(param[i].nr_scans_in_bank, param[i].ema_alpha,
                         param[i].base_confidence)>>]
  /\ optimize_nr_scans_in_bank' =
       [optimize_nr_scans_in_bank EXCEPT ![i] = param[i].optimize_nr_scans_in_bank]
  /\ sub' = [sub EXCEPT ![i] = FirstCb]
  /\ UNCHANGED <<param, NODELET, LSARRAY, max_messages, max_time, root_1, root_2, now,
                 received_messages, start_time, banks, calls, computed,
                 last_conf, crashed, arrived>>

\* onInit: read the parameters, then subscribe (called by the constructor in
\* the NODE build, by the nodelet manager in the NODELET build)
onInit(i) ==
  /\ ~crashed
  /\ i \in Hosted
  /\ sub[i] = Unsubscribed
  /\ bank_arguments' =
       [bank_arguments EXCEPT ![i] =
          <<BankArgument(param[i].nr_scans_in_bank, param[i].ema_alpha,
                         param[i].base_confidence)>>]
  /\ optimize_nr_scans_in_bank' =
       [optimize_nr_scans_in_bank EXCEPT ![i] = param[i].optimize_nr_scans_in_bank]
  /\ sub' = [sub EXCEPT ![i] =
               IF param[i].optimize_nr_scans_in_bank # 0 THEN WaitCb ELSE FirstCb]
  /\ UNCHANGED <<param, NODELET, LSARRAY, max_messages, max_time, root_1, root_2, now,
                 received_messages, start_time, banks, calls, computed,
                 last_conf, crashed, arrived>>

\* waitForFirstMessageCallback counting the message it handles
waitForFirstMessageCallback_counts(i) ==
  /\ ~crashed
  /\ sub[i] = WaitCb
  /\ start_time' = [start_time EXCEPT ![i] = now]
  /\ received_messages' = [received_messages EXCEPT ![i] = @ + 1]
  /\ sub' = [sub EXCEPT ![i] = HzCb]
  /\ calls' = Handled(i, WaitCb, <<>>)
  /\ arrived' = [arrived EXCEPT ![i] = @ + 1]
  /\ UNCHANGED <<param, NODELET, LSARRAY, max_messages, max_time, root_1, root_2, now,
                 optimize_nr_scans_in_bank, bank_arguments,
                 banks, computed, last_conf, crashed>>

\* waitForFirstMessageCallback: set start_time, rebind to hzCalculationCallback
waitForFirstMessageCallback(i) ==
  /\ ~crashed
  /\ sub[i] = WaitCb
  /\ start_time' = [start_time EXCEPT ![i] = now]
  /\ sub' = [sub EXCEPT ![i] = HzCb]
  /\ calls' = Handled(i, WaitCb, <<>>)
  /\ arrived' = [arrived EXCEPT ![i] = @ + 1]
  /\ UNCHANGED <<param, NODELET, LSARRAY, max_messages, max_time, root_1, root_2, now,
                 optimize_nr_scans_in_bank, received_messages, bank_arguments,
                 banks, computed, last_conf, crashed>>

\* the value the compute step leaves in nr_scans_in_bank before the sanity
\* check; with elapsed_time = 0 hz is infinite and the conversions to long and
\* int are undefined: ub is what they leave
ComputedNrScans(optimize, received, elapsed, ub) ==
  IF elapsed = 0 THEN ub ELSE NrScans(optimize * received, elapsed)

\* the test with the message ceiling compared strictly
Done_strict(elapsed_time, received) ==
  max_time <= elapsed_time \/ max_messages < received

\* if (max_time <= elapsed_time || max_messages <= received_messages)
Done(elapsed_time, received) ==
  max_time <= elapsed_time \/ max_messages <= received

\* the compute step leaving the subscription on hzCalculationCallback
SubAfterCompute_stays == HzCb

\* the callback the compute step subscribes
SubAfterCompute == FirstCb

\* hzCalculationCallback; ub matters only when elapsed_time = 0
hzCalculationCallback(i, ub) ==
  /\ ~crashed
  /\ sub[i] = HzCb
  /\ now # start_time[i] => ub = 0
  /\ LET received == received_messages[i] + 1
         elapsed_time == now - start_time[i]
         optimize == optimize_nr_scans_in_bank[i]
         nr == SanityCheck(ComputedNrScans(optimize, received, elapsed_time, ub))
     IN /\ received_messages' = [received_messages EXCEPT ![i] = received]
        /\ IF Done(elapsed_time, received)
           THEN /\ bank_arguments' =
                     [bank_arguments EXCEPT ![i][1].nr_scans_in_bank = nr]
                /\ root_1' = CalibratedRoot1(optimize)
                /\ root_2' = CalibratedRoot2(optimize)
                /\ sub' = [sub EXCEPT ![i] = SubAfterCompute]
                /\ computed' = [computed EXCEPT ![i] = @ + 1]
           ELSE UNCHANGED <<bank_arguments, root_1, root_2, sub, computed>>
  /\ calls' = Handled(i, HzCb, <<>>)
  /\ arrived' = [arrived EXCEPT ![i] = @ + 1]
  /\ UNCHANGED <<param, NODELET, LSARRAY, max_messages, max_time, now, optimize_nr_scans_in_bank,
                 start_time, banks, last_conf, crashed>>

\* the callback changed regardless of the init outcome
SubAfterInit_regardless(ret) == SteadyCb

\* if (bank->init(...) != 0) return;  otherwise subscribe laserScanCallback
SubAfterInit(ret) == IF ret # 0 THEN FirstCb ELSE SteadyCb

\* laserScanCallbackFirst (single-scan variant); ret is what Bank::init returns
laserScanCallbackFirst(i, ret) ==
  /\ ~crashed
  /\ ~LSARRAY
  /\ sub[i] = FirstCb
  /\ calls' = Handled(i, FirstCb,
                      <<Call("init", 1, bank_arguments[i][1].nr_scans_in_bank, ret)>>)
  /\ banks' = [banks EXCEPT ![i][1].initialized = @ \/ ret = 0]
  /\ sub' = [sub EXCEPT ![i] = SubAfterInit(ret)]
  /\ UNCHANGED <<param, NODELET, LSARRAY, max_messages, max_time, root_1, root_2, now,
                 optimize_nr_scans_in_bank, received_messages, start_time,
                 bank_arguments, computed, last_conf, crashed, arrived>>

\* the suffix appended twice
SuffixedArgument_twice(base, index) == [base EXCEPT !.suffix = Append(Append(@, index), index)]

\* the nine names of a bank argument get "_index" appended; suffix is the
\* sequence of the indices appended so far
SuffixedArgument(base, index) == [base EXCEPT !.suffix = Append(@, index)]

\* an element bank_arguments.resize() adds: a default-constructed BankArgument,
\* overwritten by the copy loop before anything reads it
NewArgument == BankArgument(0, 0, 0)

\* bank_arguments.resize(nr_msgs)
Resized(arguments, nr_msgs) ==
  [k \in 1..nr_msgs |-> IF k <= Len(arguments) THEN arguments[k] ELSE NewArgument]

RECURSIVE CopyLoop(_, _)
\* for (i = 0; i < k; ++i) bank_arguments[i] = bank_arguments[0];
CopyLoop(arguments, k) ==
  IF k = 0 THEN arguments
  ELSE LET copied == CopyLoop(arguments, k - 1)
       IN [copied EXCEPT ![k] = copied[1]]

RECURSIVE SuffixLoop(_, _)
\* for (i = 0; i < k; ++i) the names of bank_arguments[i] get "_i" appended
SuffixLoop(arguments, k) ==
  IF k = 0 THEN arguments
  ELSE LET suffixed == SuffixLoop(arguments, k - 1)
       IN [suffixed EXCEPT ![k] = SuffixedArgument(suffixed[k], k - 1)]

\* laserScanArrayCallbackFirst (scan-array variant); nr_msgs = msg->msgs.size(),
\* rets[k] is what banks[k-1]->init returns (and the callback ignores)
laserScanArrayCallbackFirst(i, nr_msgs, rets) ==
  /\ ~crashed
  /\ LSARRAY
  /\ sub[i] = FirstCb
  /\ LET create == Len(banks[i]) = 0
         arguments == IF create
                      THEN SuffixLoop(CopyLoop(Resized(bank_arguments[i], nr_msgs),
                                               nr_msgs), nr_msgs)
                      ELSE bank_arguments[i]
     IN /\ bank_arguments' = [bank_arguments EXCEPT ![i] = arguments]
        /\ banks' = [banks EXCEPT ![i] =
                       [k \in 1..nr_msgs |->
                          [initialized |-> (~create /\ banks[i][k].initialized)
                                            \/ rets[k] = 0]]]
        /\ calls' = HandledArray(i, FirstCb,
                                 [k \in 1..nr_msgs |->
                                    Call("init", k, arguments[k].nr_scans_in_bank, rets[k])],
                                 nr_msgs)
  /\ sub' = [sub EXCEPT ![i] = SteadyCb]
  /\ UNCHANGED <<param, NODELET, LSARRAY, max_messages, max_time, root_1, root_2, now,
                 optimize_nr_scans_in_bank, received_messages, start_time,
                 computed, last_conf, crashed, arrived>>

\* a tracked pair scored by a detection cycle (Bank::findAndReportMovingObjects
\* calls calculateConfidence for each pair it tracks), or no pair
NoPair == [pair |-> FALSE]
Pair(dt, seen_width, mo_old_width, f) ==
  [dt |-> dt, mo_old_width |-> mo_old_width, seen_width |-> seen_width, f |-> f,
   pair |-> TRUE]
AllSucceeded == <<TRUE, TRUE, TRUE, TRUE, TRUE, TRUE>>
ScoredPairs == {NoPair, Pair(50, 0, 0, AllSucceeded)}

\* the calculateConfidence call of the detection cycle of bank k of instance i
Scored(i, k, p) ==
  ConfCall([seen_width |-> p.seen_width], bank_arguments[i][k], p.dt,
           p.mo_old_width, p.f)

\* the detection cycle run whatever addMessage returned
SteadyCalls_always(k, ret) ==
  <<Call("addMessage", k, 0, ret), Call("findAndReportMovingObjects", k, 0, 0)>>

\* the Bank calls of the steady-state callback for scan k: addMessage, and
\* findAndReportMovingObjects if it returned 0
SteadyCalls(k, ret) ==
  IF ret # 0 THEN <<Call("addMessage", k, 0, ret)>>
  ELSE <<Call("addMessage", k, 0, ret), Call("findAndReportMovingObjects", k, 0, 0)>>

\* laserScanCallback going back to the first-scan callback when addMessage fails
laserScanCallback_rebinds(i, ret, p) ==
  /\ ~crashed
  /\ ~LSARRAY
  /\ sub[i] = SteadyCb
  /\ calls' = Handled(i, SteadyCb, SteadyCalls(1, ret))
  /\ last_conf' = IF ret = 0 /\ p.pair THEN Scored(i, 1, p) ELSE last_conf
  /\ sub' = [sub EXCEPT ![i] = IF ret # 0 THEN FirstCb ELSE SteadyCb]
  /\ UNCHANGED <<param, NODELET, LSARRAY, max_messages, max_time, root_1, root_2, now,
                 optimize_nr_scans_in_bank, received_messages, start_time,
                 bank_arguments, banks, computed, crashed, arrived>>

\* laserScanCallback (single-scan variant); ret is what Bank::addMessage returns
laserScanCallback(i, ret, p) ==
  /\ ~crashed
  /\ ~LSARRAY
  /\ sub[i] = SteadyCb
  /\ calls' = Handled(i, SteadyCb, SteadyCalls(1, ret))
  /\ last_conf' = IF ret = 0 /\ p.pair THEN Scored(i, 1, p) ELSE last_conf
  /\ UNCHANGED <<param, NODELET, LSARRAY, max_messages, max_time, root_1, root_2, now, sub,
                 optimize_nr_scans_in_bank, received_messages, start_time,
                 bank_arguments, banks, computed, crashed, arrived>>

RECURSIVE ArrayCalls(_, _)
\* the Bank calls of the loop over msg->msgs, scans 1..k
ArrayCalls(k, rets) ==
  IF k = 0 THEN <<>> ELSE ArrayCalls(k - 1, rets) \o SteadyCalls(k, rets[k])

\* what a call through banks[k] that never returns leaves as its result: the
\* signal that ended the process
Segfault == -11

\* laserScanArrayCallback (scan-array variant). banks[k] is not checked against
\* banks.size(): for an index beyond it the call goes through whatever pointer
\* lies there (undefined behaviour). It either returns something, rets[k], or
\* ends the process: segv is the index where it does, 0 if nowhere.
laserScanArrayCallback(i, nr_msgs, rets, p, segv) ==
  /\ ~crashed
  /\ LSARRAY
  /\ sub[i] = SteadyCb
  /\ segv = 0 \/ (Len(banks[i]) < segv /\ segv <= nr_msgs)
  /\ LET returned == IF segv = 0 THEN nr_msgs ELSE segv - 1
         events == IF segv = 0 THEN ArrayCalls(nr_msgs, rets)
                   ELSE ArrayCalls(returned, rets) \o
                        <<Call("addMessage", segv, 0, Segfault)>>
         found == {k \in 1..returned : rets[k] = 0 /\ k <= Len(bank_arguments[i])}
         last == CHOOSE k \in found : \A j \in found : j <= k
     IN /\ calls' = HandledArray(i, SteadyCb, events, nr_msgs)
        /\ last_conf' = IF found # {} /\ p.pair THEN Scored(i, last, p) ELSE last_conf
  /\ crashed' = (segv # 0)
  /\ UNCHANGED <<param, NODELET, LSARRAY, max_messages, max_time, root_1, root_2, now, sub,
                 optimize_nr_scans_in_bank, received_messages, start_time,
                 bank_arguments, banks, computed, arrived>>

Next ==
  \/ Tick
  \/ \E i \in Inst : onInit(i)
  \/ \E i \in Inst : waitForFirstMessageCallback(i)
  \/ \E i \in Inst, ub \in UBInts : hzCalculationCallback(i, ub)
  \/ \E i \in Inst, ret \in RetCodes : laserScanCallbackFirst(i, ret)
  \/ \E i \in Inst, nr_msgs \in 0..MaxArrayLen : \E rets \in [1..nr_msgs -> RetCodes] :
       laserScanArrayCallbackFirst(i, nr_msgs, rets)
  \/ \E i \in Inst, ret \in RetCodes, p \in ScoredPairs : laserScanCallback(i, ret, p)
  \/ \E i \in Inst, nr_msgs \in 0..MaxArrayLen, p \in ScoredPairs, segv \in 0..MaxArrayLen :
       \E rets \in [1..nr_msgs -> RetCodes] : laserScanArrayCallback(i, nr_msgs, rets, p, segv)

\* the NODE build: one instance per process
InitNode == Init /\ ~NODELET /\ param[2] = param[1]
Spec == InitNode /\ [][Next]_vars

\* the NODELET build: the instances of Inst share the process and its globals
InitNodelet ==
  /\ Init
  /\ NODELET
  /\ max_messages = 0
  /\ max_time = 2
  /\ param[1].optimize_nr_scans_in_bank = 0
  /\ param[2].optimize_nr_scans_in_bank # 0
  /\ param[2].nr_scans_in_bank = param[1].nr_scans_in_bank
SpecNodelet == InitNodelet /\ [][Next]_vars

\* the NODELET build with two nodelets that both calibrate, to different targets
InitNodeletPair ==
  /\ Init
  /\ NODELET
  /\ max_messages = 0
  /\ max_time = 2
  /\ param[1].optimize_nr_scans_in_bank = 1
  /\ param[2].optimize_nr_scans_in_bank = -1
  /\ param[1].nr_scans_in_bank = 3
  /\ param[2].nr_scans_in_bank = 3
SpecNodeletPair == InitNodeletPair /\ [][Next]_vars

\* ------------------------------------------------- the scorer on its own
\* inputs of calculateConfidence
ConfEmaAlphaSet == {-5, 0, 5, 10}
ConfBaseConfidenceSet == {0, 4000}
ConfDtSet == {0, 10, 50, 100}
ConfWidthSet == {0, 2500}
\* calibration targets that produced the roots in place (0: none, the defaults)
ConfTargetSet == {-5, 0, 1, 5}
Flags == [1..6 -> BOOLEAN]

\* the roots in place when a Bank scores: the defaults, or the ones a compute
\* step of hzCalculationCallback left
InitConf ==
  /\ Constructed
  /\ ~NODELET /\ ~LSARRAY
  /\ max_messages = 0 /\ max_time = 2
  /\ \A i \in Inst : param[i].optimize_nr_scans_in_bank = 0 /\ param[i].nr_scans_in_bank = 3
  /\ \E target \in ConfTargetSet :
       /\ root_1 = IF target = 0 THEN DefaultRoot1 ELSE CalibratedRoot1(target)
       /\ root_2 = IF target = 0 THEN DefaultRoot2 ELSE CalibratedRoot2(target)

\* one call of Bank::calculateConfidence
callCalculateConfidence(mo, ba, dt, mo_old_width, f) ==
  /\ last_conf' = ConfCall(mo, ba, dt, mo_old_width, f)
  /\ UNCHANGED <<param, NODELET, LSARRAY, max_messages, max_time, root_1, root_2,
                 now, sub, optimize_nr_scans_in_bank, received_messages, start_time,
                 bank_arguments, banks, calls, computed, crashed, arrived>>

NextConf ==
  /\ last_conf = None
  /\ \E seen_width \in ConfWidthSet, mo_old_width \in ConfWidthSet, dt \in ConfDtSet,
        alpha \in ConfEmaAlphaSet, base \in ConfBaseConfidenceSet, f \in Flags :
       callCalculateConfidence([seen_width |-> seen_width],
                               BankArgument(3, alpha, base), dt, mo_old_width, f)

SpecConf == InitConf /\ [][NextConf]_vars

\* ------------------------------------------------------------------ claims
AllTrue(f) == \A k \in 1..6 : f[k]
\* the confidence for the arguments of call c with other flags, another dt
WithFlags(c, f) ==
  calculateConfidence(c.mo, c.ba, c.dt, c.mo_old_width, f[1], f[2], f[3], f[4], f[5], f[6])
WithDt(c, dt) ==
  calculateConfidence(c.mo, c.ba, dt, c.mo_old_width,
                      c.f[1], c.f[2], c.f[3], c.f[4], c.f[5], c.f[6])
\* twice the distance of dt from the midpoint of the roots
Dist2(dt) == Fabsf(2 * dt - (root_1 + root_2))

\* C1: calculateConfidence returns
\* ema_alpha * (base_confidence + bonus + a*(dt - root_1)*(dt - root_2)
\*              - 5*|new_width - old_width|) with bonus 0.5 or 0.0 and a = -10/3,
\* that is 3 * confidence = ema_alpha * (3*base_confidence + 3*bonus
\*              - 10*(dt - root_1)*(dt - root_2) - 15*|new_width - old_width|).
C1_Claim ==
  last_conf # None =>
    3 * last_conf.result =
      last_conf.ba.ema_alpha *
        (3 * last_conf.ba.base_confidence +
         3 * (IF AllTrue(last_conf.f) THEN 5000 ELSE 0) -
         10 * (last_conf.dt - root_1) * (last_conf.dt - root_2) -
         15 * Fabsf(last_conf.mo.seen_width - last_conf.mo_old_width))

\* C7 as stated: with everything else fixed, the confidence with all six flags
\* true exceeds the confidence of each of the 63 other flag combinations by
\* exactly 0.5 * ema_alpha, and is strictly greater.
C7_Claim ==
  (last_conf # None /\ AllTrue(last_conf.f)) =>
    \A f \in Flags :
      ~AllTrue(f) =>
        /\ last_conf.result - WithFlags(last_conf, f) = 5000 * last_conf.ba.ema_alpha
        /\ WithFlags(last_conf, f) < last_conf.result

\* C7 amended: the confidence with all six flags true exceeds the confidence of
\* each of the 63 other flag combinations by exactly 0.5 * ema_alpha (so the 63
\* agree); the decrease is strict exactly when ema_alpha > 0.
C7_BonusDifference ==
  (last_conf # None /\ AllTrue(last_conf.f)) =>
    \A f \in Flags :
      ~AllTrue(f) =>
        /\ last_conf.result - WithFlags(last_conf, f) = 5000 * last_conf.ba.ema_alpha
        /\ (WithFlags(last_conf, f) < last_conf.result) = (last_conf.ba.ema_alpha > 0)

C7_Witness ==
  /\ last_conf # None
  /\ AllTrue(last_conf.f)
  /\ last_conf.ba.ema_alpha = 5
  /\ last_conf.result - WithFlags(last_conf, [k \in 1..6 |-> k # 3]) = 25000

\* C8 as stated: with everything else fixed, the confidence is monotonically
\* non-increasing in |dt - (root_1 + root_2)/2|, for the default roots and for
\* the roots of every non-zero calibration target.
C8_Claim ==
  last_conf # None =>
    \A dt \in ConfDtSet :
      Dist2(last_conf.dt) <= Dist2(dt) => last_conf.result >= WithDt(last_conf, dt)

\* C8 amended: for ema_alpha >= 0 the confidence is monotonically
\* non-increasing in |dt - (root_1 + root_2)/2|, for the default roots and for
\* the roots of every non-zero calibration target (a negative one included).
C8_Parabola ==
  (last_conf # None /\ last_conf.ba.ema_alpha >= 0) =>
    \A dt \in ConfDtSet :
      Dist2(last_conf.dt) <= Dist2(dt) => last_conf.result >= WithDt(last_conf, dt)

C8_Witness ==
  /\ last_conf # None
  /\ last_conf.ba.ema_alpha = 10
  /\ root_1 = CalibratedRoot1(-5)
  /\ last_conf.dt = 10
  /\ last_conf.result > WithDt(last_conf, 50)

\* ---- ingress claims
InitCalls == {k \in DOMAIN calls.events : calls.events[k].op = "init"}
\* instance i executes the compute step of hzCalculationCallback in this step
ComputeStep(i) == computed'[i] = computed[i] + 1
\* nr_scans = optimize_nr_scans_in_bank * hz of that compute step, as n/d
ComputeN(i) == optimize_nr_scans_in_bank[i] * received_messages'[i]
ComputeD(i) == now - start_time[i]
Integral(n, d) == \E k \in -(Fabsf(n))..Fabsf(n) : k * d = n
Ceiling(n, d) == CHOOSE k \in -(Fabsf(n))..Fabsf(n) + 1 : k * d >= n /\ (k - 1) * d < n
IntegerPlusOneOrCeiling(n, d) == IF Integral(n, d) THEN n \div d + 1 ELSE Ceiling(n, d)

\* C2: once an instance is in steady state, its window size nr_scans_in_bank
\* and the roots root_1, root_2 its confidence computations use never change
\* again, whatever messages this or any other instance of the process receives.
C2_Claim ==
  [][\A i \in Inst :
       sub[i] = SteadyCb =>
         /\ root_1' = root_1
         /\ root_2' = root_2
         /\ bank_arguments'[i] = bank_arguments[i]]_vars

C4_Claim ==
  [][\A i \in Inst :
       (ComputeStep(i) /\ ComputeD(i) > 0) =>
         bank_arguments'[i][1].nr_scans_in_bank =
           IntegerPlusOneOrCeiling(ComputeN(i), ComputeD(i))]_vars

\* C4 amended: in the compute step, with p = optimize_nr_scans_in_bank * hz,
\* the window size computed is p + 1 if p is an integer and ceil(p) otherwise,
\* unless that is below 2 (p < 1, negative p included): then it is 2.
C4_WindowSize ==
  [][\A i \in Inst :
       (ComputeStep(i) /\ ComputeD(i) > 0) =>
         bank_arguments'[i][1].nr_scans_in_bank =
           IF IntegerPlusOneOrCeiling(ComputeN(i), ComputeD(i)) < 2 THEN 2
           ELSE IntegerPlusOneOrCeiling(ComputeN(i), ComputeD(i))]_vars

C4_Witness ==
  /\ sub[1] = FirstCb
  /\ computed[1] = 1
  /\ optimize_nr_scans_in_bank[1] = 1
  /\ received_messages[1] = 3
  /\ now - start_time[1] = 1
  /\ bank_arguments[1][1].nr_scans_in_bank = 4

\* C5: the nr_scans_in_bank of the BankArgument handed to Bank init is at least
\* 2 on every path that reaches init, after calibration and with calibration
\* disabled.
C5_Claim ==
  calls # None => \A k \in InitCalls : calls.events[k].nr >= 2

\* C6: calculateConfidence is a pure function of its arguments: two calls with
\* identical arguments return the same value whatever callbacks of whatever
\* instance ran between them.
C6_Claim ==
  [][(/\ last_conf # None
      /\ last_conf' # None
      /\ last_conf'.mo = last_conf.mo
      /\ last_conf'.ba = last_conf.ba
      /\ last_conf'.dt = last_conf.dt
      /\ last_conf'.mo_old_width = last_conf.mo_old_width
      /\ last_conf'.f = last_conf.f)
     => last_conf'.result = last_conf.result]_vars

\* C9: once the subscription of an instance is bound to the steady-state
\* callback it is never rebound to another callback (so the instance enters
\* steady state at most once), whatever messages arrive and whatever
\* addMessage returns.
C9_SteadyIsFinal ==
  [][\A i \in Inst : sub[i] = SteadyCb => sub'[i] = SteadyCb]_vars

C9_Witness ==
  /\ sub[1] = SteadyCb
  /\ calls # None
  /\ calls.cb = SteadyCb
  /\ \E k \in DOMAIN calls.events :
       calls.events[k].op = "addMessage" /\ calls.events[k].ret # 0

\* C10: an instance calibrates iff its optimize_nr_scans_in_bank is non-zero.
\* When it is zero, its messages go to the first-scan callback from the first
\* one on, its warm-up and hz callbacks never run, and it never writes
\* nr_scans_in_bank, root_1 or root_2 (in the NODE build, where it is the only
\* instance, they keep the configured and the default values). When it is
\* non-zero, the compute step has run exactly once by the time the first-scan
\* callback is bound, and never runs again.
C10_CalibratesIffOptimize ==
  \A i \in Hosted :
    sub[i] # Unsubscribed =>
      IF optimize_nr_scans_in_bank[i] = 0
      THEN /\ sub[i] \in {FirstCb, SteadyCb}
           /\ computed[i] = 0
           /\ received_messages[i] = 0
           /\ (calls # None /\ calls.inst = i) => calls.cb \in {FirstCb, SteadyCb}
           /\ \A k \in DOMAIN bank_arguments[i] :
                bank_arguments[i][k].nr_scans_in_bank = param[i].nr_scans_in_bank
           /\ ~NODELET => (root_1 = DefaultRoot1 /\ root_2 = DefaultRoot2)
      ELSE /\ computed[i] = (IF sub[i] \in {FirstCb, SteadyCb} THEN 1 ELSE 0)
           /\ (calls # None /\ calls.inst = i /\ computed[i] = 0) =>
                calls.cb \in {WaitCb, HzCb}

C10_Witness ==
  /\ optimize_nr_scans_in_bank[1] # 0
  /\ computed[1] = 1
  /\ sub[1] = SteadyCb
  /\ calls # None
  /\ calls.cb = SteadyCb

\* C11: the calibrator's counters are fed during warm-up only: after the compute
\* step of an instance has run, no later message increments its
\* received_messages or changes its start_time.
C11_CountersFrozen ==
  [][\A i \in Inst :
       computed[i] >= 1 =>
         /\ received_messages'[i] = received_messages[i]
         /\ start_time'[i] = start_time[i]]_vars

C11_Witness ==
  /\ computed[1] = 1
  /\ received_messages[1] = 3
  /\ start_time[1] = 0
  /\ now = MaxNow
  /\ calls # None
  /\ calls.cb = SteadyCb

\* the Bank calls of the most recent callback
Events == IF calls = None THEN <<>> ELSE calls.events
EventIndices == DOMAIN Events

\* C12: in steady state a detection cycle (findAndReportMovingObjects) is run
\* for a scan iff addMessage for that scan on that bank returned success, and
\* it runs immediately after that addMessage; a failed addMessage produces no
\* detection cycle. The scan consumed by init never triggers a detection cycle.
C12_DetectionIffAdded ==
  /\ \A k \in EventIndices :
       /\ Events[k].op = "findAndReportMovingObjects" =>
            /\ calls.cb = SteadyCb
            /\ k > 1
            /\ Events[k - 1].op = "addMessage"
            /\ Events[k - 1].bank = Events[k].bank
            /\ Events[k - 1].ret = 0
       /\ (Events[k].op = "addMessage" /\ Events[k].ret = 0) =>
            /\ k + 1 \in EventIndices
            /\ Events[k + 1].op = "findAndReportMovingObjects"
            /\ Events[k + 1].bank = Events[k].bank
       /\ (Events[k].op = "addMessage" /\ Events[k].ret # 0) =>
            (k + 1 \in EventIndices => Events[k + 1].op = "addMessage")
       /\ Events[k].op = "addMessage" => calls.cb = SteadyCb
  /\ (calls # None /\ calls.cb = FirstCb) =>
       \A k \in EventIndices : Events[k].op = "init"

C12_Witness ==
  /\ LSARRAY
  /\ calls # None
  /\ calls.cb = SteadyCb
  /\ Len(Events) = 3
  /\ Events[1].op = "addMessage" /\ Events[1].bank = 1 /\ Events[1].ret # 0
  /\ Events[2].op = "addMessage" /\ Events[2].bank = 2 /\ Events[2].ret = 0
  /\ Events[3].op = "findAndReportMovingObjects" /\ Events[3].bank = 2

\* this step is the first-scan callback of instance i
FirstScanStep(i) ==
  /\ sub[i] = FirstCb
  /\ calls' # calls
  /\ calls'.inst = i
  /\ calls'.cb = FirstCb

\* C13: immediately after the compute step of an instance, root_1 is
\* 0.6 * optimize_nr_scans_in_bank and root_2 is 1.4 * optimize_nr_scans_in_bank
\* of that instance, and these values and the window size computed are in
\* place when the Bank init of that instance is called.
C13_Claim ==
  [][\A i \in Inst :
       /\ ComputeStep(i) =>
            /\ root_1' = 6 * optimize_nr_scans_in_bank[i]
            /\ root_2' = 14 * optimize_nr_scans_in_bank[i]
       /\ (FirstScanStep(i) /\ computed[i] = 1) =>
            /\ root_1 = 6 * optimize_nr_scans_in_bank[i]
            /\ root_2 = 14 * optimize_nr_scans_in_bank[i]
            /\ \A k \in DOMAIN calls'.events :
                 calls'.events[k].op = "init" =>
                   calls'.events[k].nr = bank_arguments[i][1].nr_scans_in_bank]_vars

\* the events of the most recent callback that are calls of op on bank k
CallsOn(op, k) == {e \in EventIndices : Events[e].op = op /\ Events[e].bank = k}

\* C14: in the scan-array variant the streams of one array message are handled
\* independently: addMessage is called exactly once on bank k for every index k
\* of the incoming array, and a failed addMessage on bank k suppresses the
\* detection cycle of bank k only, never the addMessage or the detection cycle
\* of another bank of the same message.
C14_Claim ==
  (calls # None /\ calls.cb = "laserScanArrayCallback") =>
    \A k \in 1..calls.nr_msgs :
      /\ Cardinality(CallsOn("addMessage", k)) = 1
      /\ \A e \in CallsOn("addMessage", k) :
           Cardinality(CallsOn("findAndReportMovingObjects", k)) =
             (IF Events[e].ret = 0 THEN 1 ELSE 0)

\* max(1, max_messages)
MessageCeiling == IF max_messages < 1 THEN 1 ELSE max_messages

\* C15: warm-up ends after a bounded number of messages: the compute step is
\* reached after at most max(1, max_messages) invocations of
\* hzCalculationCallback (at most max(1, max_messages) + 1 messages with the
\* one that starts the timer), even if the clock never reaches max_time, and
\* the subscription is then bound to the first-scan callback.
C15_WarmupBounded ==
  /\ \A i \in Hosted :
       /\ received_messages[i] <= MessageCeiling
       /\ arrived[i] <= MessageCeiling + 1
       /\ sub[i] = HzCb => (received_messages[i] < MessageCeiling /\ computed[i] = 0)
       /\ received_messages[i] = MessageCeiling => computed[i] = 1
  /\ (calls # None /\ calls.cb = HzCb /\ computed[calls.inst] = 1) =>
       sub[calls.inst] = FirstCb

C15_Witness ==
  /\ max_messages = 3
  /\ max_time > MaxNow
  /\ calls # None
  /\ calls.cb = HzCb
  /\ received_messages[1] = 3
  /\ arrived[1] = 4
  /\ computed[1] = 1
  /\ sub[1] = FirstCb

\* C16: the message that starts the warm-up timer is not counted: at the
\* compute step received_messages is the number of messages delivered after
\* the one that set start_time, at least 1, and hz is that number divided by
\* the time from start_time to the compute step (the window size computed
\* is the one of C4 for that quotient).
C16_TimerMessageNotCounted ==
  [][\A i \in Inst :
       /\ (sub[i] = WaitCb /\ sub'[i] # WaitCb) =>
            /\ arrived'[i] = 1
            /\ received_messages'[i] = 0
            /\ start_time'[i] = now
       /\ sub[i] = HzCb => start_time'[i] = start_time[i]
       /\ ComputeStep(i) =>
            /\ received_messages'[i] = arrived'[i] - 1
            /\ received_messages'[i] >= 1
            /\ now > start_time[i] =>
                 LET intervals == arrived'[i] - 1
                     n == optimize_nr_scans_in_bank[i] * intervals
                     d == now - start_time[i]
                 IN bank_arguments'[i][1].nr_scans_in_bank =
                      IF IntegerPlusOneOrCeiling(n, d) < 2 THEN 2
                      ELSE IntegerPlusOneOrCeiling(n, d)]_vars

C16_Witness ==
  /\ calls # None
  /\ calls.cb = HzCb
  /\ computed[1] = 1
  /\ arrived[1] = 4
  /\ received_messages[1] = 3
  /\ optimize_nr_scans_in_bank[1] = 1
  /\ now - start_time[1] = 2
  /\ bank_arguments[1][1].nr_scans_in_bank = 2

\* C17: in the scan-array variant, after the first-scan callback has run on an
\* array of n scans, exactly n banks exist and bank_arguments[k], k in 0..n-1,
\* equals the base argument (bank_arguments[0] on entry, with the calibrated
\* nr_scans_in_bank) in every field, except that its names have the suffix
\* "_k" appended exactly once (index 0 included).
C17_SuffixedCopies ==
  [][\A i \in Inst :
       (LSARRAY /\ FirstScanStep(i)) =>
         /\ Len(banks'[i]) = calls'.nr_msgs
         /\ Len(bank_arguments'[i]) = calls'.nr_msgs
         /\ \A k \in 1..calls'.nr_msgs :
              bank_arguments'[i][k] =
                [bank_arguments[i][1] EXCEPT
                   !.suffix = Append(bank_arguments[i][1].suffix, k - 1)]]_vars

C17_Witness ==
  /\ LSARRAY
  /\ calls # None
  /\ calls.cb = FirstCb
  /\ calls.nr_msgs = 2
  /\ computed[1] = 1
  /\ Len(banks[1]) = 2
  /\ bank_arguments[1][1].suffix = <<0>>
  /\ bank_arguments[1][2].suffix = <<1>>
  /\ bank_arguments[1][2].nr_scans_in_bank = 4

\* calibration of instance i is pending
Pending(i) ==
  /\ sub[i] # Unsubscribed
  /\ optimize_nr_scans_in_bank[i] # 0
  /\ computed[i] = 0

\* C18: every message is handled by one ingress phase, and while calibration
\* is pending (optimize_nr_scans_in_bank # 0, compute step not run) no message
\* is passed to a Bank: neither init nor addMessage is called before the
\* compute step, and the message that completes the calibration is consumed
\* by the calibrator, not forwarded to a Bank.
C18_NoBankWhilePending ==
  /\ \A i \in Hosted :
       Pending(i) =>
         /\ sub[i] \in {WaitCb, HzCb}
         /\ \A k \in DOMAIN banks[i] : ~banks[i][k].initialized
         /\ (calls # None /\ calls.inst = i) =>
              (calls.cb \in {WaitCb, HzCb} /\ calls.events = <<>>)
  /\ (calls # None /\ calls.cb \in {WaitCb, HzCb}) => calls.events = <<>>
  /\ \A i \in Hosted :
       (calls # None /\ calls.inst = i /\ calls.events # <<>>) =>
         (optimize_nr_scans_in_bank[i] = 0 \/ computed[i] = 1)

C18_Witness ==
  /\ optimize_nr_scans_in_bank[1] # 0
  /\ computed[1] = 1
  /\ sub[1] = FirstCb
  /\ calls # None
  /\ calls.cb = HzCb
  /\ calls.events = <<>>
  /\ \A k \in DOMAIN banks[1] : ~banks[1][k].initialized

\* C19: addMessage and findAndReportMovingObjects are never called on a bank
\* whose init has not returned success before: a bank that receives a
\* steady-state scan has been initialised successfully, in the single-scan
\* variant and for every bank of the scan-array variant.
C19_Claim ==
  (calls # None /\ calls.cb = SteadyCb) =>
    \A e \in EventIndices :
      /\ Events[e].bank \in DOMAIN banks[calls.inst]
      /\ banks[calls.inst][Events[e].bank].initialized

\* C20: in the scan-array variant every bank index used in steady state
\* exists: for every array message laserScanArrayCallback processes and every
\* index k below msg.msgs.size(), k is below banks.size(), whatever the lengths
\* of the array messages (a first array message of length 0 included).
C20_Claim ==
  (calls # None /\ calls.cb = "laserScanArrayCallback") =>
    /\ calls.nr_msgs <= Len(banks[calls.inst])
    /\ \A e \in EventIndices : Events[e].bank \in DOMAIN banks[calls.inst]

\* C21: whenever the compute step runs, the elapsed time it divides by is
\* strictly positive, so that hz = received_messages / elapsed_time is a finite
\* positive number, for every max_messages and max_time and every clock that
\* never goes back (one that does not advance between two messages included).
C21_Claim ==
  [][\A i \in Inst :
       ComputeStep(i) =>
         /\ now - start_time[i] > 0
         /\ received_messages'[i] > 0]_vars

====
